---------------------------- MODULE Spec2Model ----------------------------
(***************************************************************************)
(* Teachers' timetable application: the CPF utilities                      *)
(* (src/src/utils/cpfUtils.ts), the password rules                         *)
(* (src/src/utils/passwordUtils.ts), the coordinator's dashboard with its  *)
(* conflict detector, registries and slot handlers (src/unnamed/part_003), *)
(* the teacher's dashboard (src/unnamed/part_002), and the authentication  *)
(* context with the route /dashboard (src/src/contexts/AuthContext.tsx,    *)
(* src/src/App.tsx, src/src/components/PrivateRoute.tsx).                  *)
(*                                                                         *)
(* A string is a sequence of one-character strings.                        *)
(***************************************************************************)
EXTENDS Integers, Sequences, FiniteSets, TLC

VARIABLES
    cpf,        \* the CPF text handed to the utilities (the caller's string)
    prior,      \* the text before the caller's last edit of it
    edit,       \* the last edit: [kind, pos]
    call,       \* the utility called last ("none" before any call)
    arg,        \* the argument of that call
    from,       \* where arg came from: "input" or "formatCPF" (a composed call)
    retStr,     \* the string a string-valued utility returned
    retBool,    \* the boolean a predicate utility returned
    timetable,  \* the documents of the Firestore collection 'timetable'
    allTimeSlots,    \* CoordinatorDashboard state: the loaded snapshot
    loading,         \* CoordinatorDashboard state: a load is under way
    selectedTeacher, \* CoordinatorDashboard state: a teacher id or "all"
    cell,       \* the (day, time) cell rendered last
    conflict,   \* what hasConflict returned for that cell
    subjectsDb, \* the documents of the Firestore collection 'subjects'
    roomsDb,    \* the documents of the Firestore collection 'rooms'
    subjects,   \* CoordinatorDashboard state: the loaded subjects
    rooms,      \* CoordinatorDashboard state: the loaded rooms
    timeSlots,      \* Dashboard state: the teacher's own loaded slots
    dashLoading,    \* Dashboard state: loading
    dashPending,    \* Dashboard: the loadTimeSlots call that is awaiting
    showAddModal,   \* Dashboard state: the slot modal is open
    selectedSlot,   \* Dashboard state: the (day, time) clicked last, or NoCell
    editingSlotId,  \* Dashboard state: the id of the slot in edit, or NoId
    dashSubjects,   \* Dashboard state: the loaded subjects
    dashRooms,      \* Dashboard state: the loaded rooms
    password,   \* the password handed to validatePassword
    validation, \* what validatePassword returned for it
    accounts,   \* the accounts of Firebase Authentication
    users,      \* the documents of the Firestore collection 'users'
    authCurrentUser, \* auth.currentUser: the uid signed in, or NoUser
    notified,   \* the auth state the onAuthStateChanged listener saw last
    listenerUser,    \* the listener's user while it awaits loadUserData
    currentUser,     \* AuthProvider state: the uid, or NoUser
    userCPF,         \* AuthProvider state
    userProfile,     \* AuthProvider state
    authLoading,     \* AuthProvider state: loading
    regPc,      \* register: the step the call is about to run
    regArgs,    \* register: the arguments of the call
    regUserId,  \* register: its local userId
    regTrace,   \* register: the steps the call ran, each with its outcome
    regResult,  \* register: how the last call ended
    rendered,   \* what the route /dashboard rendered last, and from what
    regFailed,   \* register: the cleaned CPF and the steps of the call before
    profArgs,   \* updateProfile: the updates of the last call
    profTrace,  \* updateProfile: the Auth and Firestore calls it made
    profResult, \* updateProfile: how the last call ended
    systemDoc,  \* the document users/_system_init exists
    initPc,     \* initializeUsersCollection: the step it is about to run
    initExisted,     \* initializeUsersCollection: systemDoc when called
    initTrace,  \* initializeUsersCollection: the steps the call ran
    initResult, \* initializeUsersCollection: what the last call returned
    initCalls, initPrior   \* the calls of initializeUsersCollection made so far

cpfVars == <<cpf, prior, edit, call, arg, from, retStr, retBool>>
ttVars == <<timetable, allTimeSlots, loading, selectedTeacher, cell, conflict>>
registryVars == <<subjectsDb, roomsDb, subjects, rooms>>
dashVars == <<timeSlots, dashLoading, dashPending, showAddModal, selectedSlot,
              editingSlotId, dashSubjects, dashRooms>>
pwVars == <<password, validation>>
authVars == <<accounts, users, authCurrentUser, notified, listenerUser,
              currentUser, userCPF, userProfile, authLoading,
              regPc, regArgs, regUserId, regTrace, regResult, rendered>>
callVars == <<regFailed, profArgs, profTrace, profResult>>
initVars ==
    <<systemDoc, initPc, initExisted, initTrace, initResult, initCalls, initPrior>>
vars == <<cpf, prior, edit, call, arg, from, retStr, retBool,
          timetable, allTimeSlots, loading, selectedTeacher, cell, conflict,
          subjectsDb, roomsDb, subjects, rooms,
          timeSlots, dashLoading, dashPending, showAddModal, selectedSlot,
          editingSlotId, dashSubjects, dashRooms,
          password, validation,
          accounts, users, authCurrentUser, notified, listenerUser,
          currentUser, userCPF, userProfile, authLoading,
          regPc, regArgs, regUserId, regTrace, regResult, rendered,
          regFailed, profArgs, profTrace, profResult,
          systemDoc, initPc, initExisted, initTrace, initResult, initCalls>>

\* what the CPF utilities leave alone, and what the coordinator's grid does
nonCpfVars == <<ttVars, registryVars, dashVars, pwVars, authVars, callVars,
                initVars>>
nonGridVars == <<cpfVars, registryVars, dashVars, pwVars, authVars, callVars,
                 initVars>>

(***************************************************************************)
(* Characters                                                              *)
(***************************************************************************)
Digit == {"0", "1", "2", "3", "4", "5", "6", "7", "8", "9"}

\* the two characters of the class [.\-]
Separator == {".", "-"}

\* characters the caller's string may hold: digits, separators, a letter, a space
Char == Digit \cup Separator \cup {"a", " "}

\* Number(c) for a one-character string c: a digit's value, 0 for white space,
\* NaN for anything else
Number(c) ==
    CASE c = "0" -> 0 [] c = "1" -> 1 [] c = "2" -> 2 [] c = "3" -> 3
      [] c = "4" -> 4 [] c = "5" -> 5 [] c = "6" -> 6 [] c = "7" -> 7
      [] c = "8" -> 8 [] c = "9" -> 9 [] c = " " -> 0
      [] OTHER -> "NaN"

(***************************************************************************)
(* cpfUtils.ts                                                             *)
(***************************************************************************)
NotSeparator(c) == c \notin Separator

\* a replace without the g flag: only the first separator goes
RECURSIVE formatCPFFirstOnly(_)
formatCPFFirstOnly(s) ==
    IF s = <<>> THEN <<>>
    ELSE IF Head(s) \in Separator THEN Tail(s)
    ELSE <<Head(s)>> \o formatCPFFirstOnly(Tail(s))

\* cpf.replace(/[.\-]/g, '')
formatCPF(s) == SelectSeq(s, NotSeparator)

\* the pattern without its closing anchor, /^\d{11}/
IsElevenDigitsPrefix(s) == Len(s) >= 11 /\ \A i \in 1..11 : s[i] \in Digit

\* /^\d{11}$/.test(s)
IsElevenDigits(s) == Len(s) = 11 /\ \A i \in 1..11 : s[i] \in Digit

\* the same test with the class \d left out: any eleven characters pass
validateCPFFormatLengthOnly(s) == Len(formatCPF(s)) = 11

validateCPFFormat(s) ==
    LET cleaned == formatCPF(s)
    IN  IsElevenDigits(cleaned)

\* /^(\d)\1{10}$/.test(s)
allDigitsSame(s) ==
    /\ Len(s) = 11
    /\ s[1] \in Digit
    /\ \A i \in 2..11 : s[i] = s[1]

\* digits.reduce((acc, digit, index) => acc + digit * weights[index], 0)
RECURSIVE Reduce(_, _, _, _)
Reduce(digits, weights, index, acc) ==
    IF index > Len(digits) THEN acc
    ELSE Reduce(digits, weights, index + 1, acc + digits[index] * weights[index])

\* the remainder rule with the bound 1 in place of 2
calculateCheckDigitNoFold(digits, weights) ==
    LET sum == Reduce(digits, weights, 1, 0)
        remainder == sum % 11
    IN  IF remainder < 1 THEN 0 ELSE 11 - remainder

calculateCheckDigit(digits, weights) ==
    LET sum == Reduce(digits, weights, 1, 0)
        remainder == sum % 11
    IN  IF remainder < 2 THEN 0 ELSE 11 - remainder

firstWeights == <<10, 9, 8, 7, 6, 5, 4, 3, 2>>
secondWeights == <<11, 10, 9, 8, 7, 6, 5, 4, 3, 2>>

\* validateCPF without the test for eleven equal digits
validateCPFNoSameCheck(s) ==
    LET cleaned == formatCPF(s)
        digits == [i \in 1..Len(cleaned) |-> Number(cleaned[i])]
    IN  IF ~validateCPFFormat(cleaned) THEN FALSE
        ELSE IF calculateCheckDigit(SubSeq(digits, 1, 9), firstWeights) # digits[10]
             THEN FALSE
        ELSE IF calculateCheckDigit(SubSeq(digits, 1, 10), secondWeights) # digits[11]
             THEN FALSE
        ELSE TRUE

\* validateCPF without the second check digit
validateCPFFirstOnly(s) ==
    LET cleaned == formatCPF(s)
        digits == [i \in 1..Len(cleaned) |-> Number(cleaned[i])]
    IN  IF ~validateCPFFormat(cleaned) THEN FALSE
        ELSE IF allDigitsSame(cleaned) THEN FALSE
        ELSE IF calculateCheckDigit(SubSeq(digits, 1, 9), firstWeights) # digits[10]
             THEN FALSE
        ELSE TRUE

validateCPF(s) ==
    LET cleaned == formatCPF(s)
        digits == [i \in 1..Len(cleaned) |-> Number(cleaned[i])]
        firstCheckDigit == calculateCheckDigit(SubSeq(digits, 1, 9), firstWeights)
        secondCheckDigit == calculateCheckDigit(SubSeq(digits, 1, 10), secondWeights)
    IN  IF ~validateCPFFormat(cleaned) THEN FALSE
        ELSE IF allDigitsSame(cleaned) THEN FALSE
        ELSE IF firstCheckDigit # digits[10] THEN FALSE
        ELSE IF secondCheckDigit # digits[11] THEN FALSE
        ELSE TRUE

\* the first index at which /(\d{3})(\d{3})(\d{3})(\d{2})/ matches s, 0 if none
MatchStart(s) ==
    LET starts == {p \in 1..(Len(s) - 10) : \A k \in 0..10 : s[p + k] \in Digit}
    IN  IF starts = {} THEN 0
        ELSE CHOOSE p \in starts : \A q \in starts : p <= q

\* the replacement '$1.$2.$3.$4'
ReplaceWithLayoutDots(s) ==
    LET p == MatchStart(s)
    IN  IF p = 0 THEN s
        ELSE SubSeq(s, 1, p - 1)
             \o SubSeq(s, p, p + 2) \o <<".">>
             \o SubSeq(s, p + 3, p + 5) \o <<".">>
             \o SubSeq(s, p + 6, p + 8) \o <<".">>
             \o SubSeq(s, p + 9, p + 10)
             \o SubSeq(s, p + 11, Len(s))

\* s.replace(/(\d{3})(\d{3})(\d{3})(\d{2})/, '$1.$2.$3-$4')
ReplaceWithLayout(s) ==
    LET p == MatchStart(s)
    IN  IF p = 0 THEN s
        ELSE SubSeq(s, 1, p - 1)
             \o SubSeq(s, p, p + 2) \o <<".">>
             \o SubSeq(s, p + 3, p + 5) \o <<".">>
             \o SubSeq(s, p + 6, p + 8) \o <<"-">>
             \o SubSeq(s, p + 9, p + 10)
             \o SubSeq(s, p + 11, Len(s))

displayCPF(s) ==
    LET cleaned == formatCPF(s)
    IN  IF Len(cleaned) # 11 THEN s
        ELSE ReplaceWithLayout(cleaned)


(***************************************************************************)
(* The strings the utilities are called with.  A caller starts from an     *)
(* eleven digit number, bare or typed with its separators, and may then    *)
(* change the text once: replace a character, insert one, cut the text     *)
(* short, or go on typing after its end.                                   *)
(***************************************************************************)
\* how many characters a caller may type after the end of the number
MaxExtra == 1

\* eleven copies of the digit d
Repeated(d) == [i \in 1..11 |-> d]

\* the reference number of the spec, and three more numbers with good check digits
ReferenceCPF == <<"5", "2", "9", "9", "8", "2", "2", "4", "7", "2", "5">>

Seeds ==
    {Repeated(d) : d \in Digit}
    \cup {ReferenceCPF,
          <<"1", "1", "1", "4", "4", "4", "7", "7", "7", "3", "5">>,
          <<"7", "0", "4", "9", "9", "9", "6", "2", "2", "0", "6">>,
          <<"9", "2", "9", "4", "7", "8", "2", "2", "2", "0", "0">>}

\* an eleven character text typed as XXX.XXX.XXX-XX
Punctuate(s) ==
    SubSeq(s, 1, 3) \o <<".">> \o SubSeq(s, 4, 6) \o <<".">>
    \o SubSeq(s, 7, 9) \o <<"-">> \o SubSeq(s, 10, 11)

NoEdit == [kind |-> "none", pos |-> 0]

NoCall ==
    /\ call' = "none"
    /\ arg' = <<>>
    /\ from' = "input"
    /\ retStr' = <<>>
    /\ retBool' = FALSE

CpfInit ==
    /\ cpf \in Seeds \cup {Punctuate(s) : s \in Seeds}
    /\ prior = cpf
    /\ edit = NoEdit
    /\ call = "none"
    /\ arg = <<>>
    /\ from = "input"
    /\ retStr = <<>>
    /\ retBool = FALSE

\* the caller replaces the character at position i by another one
ReplaceChar(i, c) ==
    /\ edit = NoEdit
    /\ i \in 1..Len(cpf)
    /\ c # cpf[i]
    /\ cpf' = [cpf EXCEPT ![i] = c]
    /\ prior' = cpf
    /\ edit' = [kind |-> "replace", pos |-> i]
    /\ NoCall
    /\ UNCHANGED nonCpfVars

\* the caller inserts the character c before position i
InsertChar(i, c) ==
    /\ edit = NoEdit
    /\ i \in 1..Len(cpf)
    /\ cpf' = SubSeq(cpf, 1, i - 1) \o <<c>> \o SubSeq(cpf, i, Len(cpf))
    /\ prior' = cpf
    /\ edit' = [kind |-> "insert", pos |-> i]
    /\ NoCall
    /\ UNCHANGED nonCpfVars

\* the caller keeps only the first k characters
Truncate(k) ==
    /\ edit = NoEdit
    /\ k \in 0..(Len(cpf) - 1)
    /\ cpf' = SubSeq(cpf, 1, k)
    /\ prior' = cpf
    /\ edit' = [kind |-> "truncate", pos |-> k]
    /\ NoCall
    /\ UNCHANGED nonCpfVars

\* the caller types the character c after the end of the text
AppendChar(c) ==
    /\ edit.kind \in {"none", "append"}
    /\ Len(cpf) - Len(prior) < MaxExtra
    /\ cpf' = Append(cpf, c)
    /\ prior' = prior
    /\ edit' = [kind |-> "append", pos |-> Len(cpf) + 1]
    /\ NoCall
    /\ UNCHANGED nonCpfVars

\* what a utility may be called with: the caller's text, or the string formatCPF
\* has just returned (register and validateCPF pass the cleaned text on)
Arguments ==
    {<<cpf, "input">>}
    \cup (IF call = "formatCPF" THEN {<<retStr, "formatCPF">>} ELSE {})

CallFormatCPF ==
    \E a \in Arguments :
        /\ call' = "formatCPF"
        /\ arg' = a[1]
        /\ from' = a[2]
        /\ retStr' = formatCPF(a[1])
        /\ retBool' = FALSE
        /\ UNCHANGED <<cpf, prior, edit>>
        /\ UNCHANGED nonCpfVars

CallValidateCPFFormat ==
    /\ call' = "validateCPFFormat"
    /\ arg' = cpf
    /\ from' = "input"
    /\ retStr' = <<>>
    /\ retBool' = validateCPFFormat(cpf)
    /\ UNCHANGED <<cpf, prior, edit>>
    /\ UNCHANGED nonCpfVars

CallValidateCPF ==
    /\ call' = "validateCPF"
    /\ arg' = cpf
    /\ from' = "input"
    /\ retStr' = <<>>
    /\ retBool' = validateCPF(cpf)
    /\ UNCHANGED <<cpf, prior, edit>>
    /\ UNCHANGED nonCpfVars

CallDisplayCPF ==
    \E a \in Arguments :
        /\ call' = "displayCPF"
        /\ arg' = a[1]
        /\ from' = a[2]
        /\ retStr' = displayCPF(a[1])
        /\ retBool' = FALSE
        /\ UNCHANGED <<cpf, prior, edit>>
        /\ UNCHANGED nonCpfVars

CpfNext ==
    \/ \E i \in 1..14, c \in Char : ReplaceChar(i, c)
    \/ \E i \in 1..14, c \in Char : InsertChar(i, c)
    \/ \E k \in 0..13 : Truncate(k)
    \/ \E c \in Char : AppendChar(c)
    \/ CallFormatCPF
    \/ CallValidateCPFFormat
    \/ CallValidateCPF
    \/ CallDisplayCPF

(***************************************************************************)
(* CoordinatorDashboard: the timetable grid and its conflict detector      *)
(***************************************************************************)
\* how many documents the collection 'timetable' holds at most
MaxSlots == 3

Teachers == {"t1", "t2"}
Rooms == {"101", "102", "103"}
Subjects == {"Matematica"}

\* the days and times of the grid (a part of DAYS and of TIME_SLOTS)
Days == {"Segunda-feira", "Terca-feira"}
Times == {"08:00-09:00", "09:00-10:00"}

\* the documents other clients may have stored: any teacher, any room, in
\* the first hour of either day
TimeSlot ==
    [teacherId : Teachers, day : Days, time : {"08:00-09:00"},
     subject : Subjects, room : Rooms]

Snapshots == UNION {[1..n -> TimeSlot] : n \in 0..MaxSlots}

NoCell == <<"", "">>
NoConflict == [hasConflict |-> FALSE, type |-> "null"]

\* the list in view
getFilteredTimeSlots ==
    IF selectedTeacher = "all" THEN allTimeSlots
    ELSE SelectSeq(allTimeSlots, LAMBDA slot : slot.teacherId = selectedTeacher)

filteredTimeSlots == getFilteredTimeSlots

\* hasConflict with the threshold 1 in place of 2
hasConflictFromOne(day, time) ==
    LET slotsAtThisTime ==
            SelectSeq(filteredTimeSlots,
                      LAMBDA slot : slot.day = day /\ slot.time = time)
        roomsUsed == [i \in 1..Len(slotsAtThisTime) |-> slotsAtThisTime[i].room]
        uniqueRooms == {roomsUsed[i] : i \in 1..Len(roomsUsed)}
    IN  IF Len(slotsAtThisTime) >= 1
        THEN IF Cardinality(uniqueRooms) < Len(roomsUsed)
             THEN [hasConflict |-> TRUE, type |-> "room"]
             ELSE [hasConflict |-> TRUE, type |-> "general"]
        ELSE NoConflict

\* hasConflict calling it a room conflict only when one room is used by all
hasConflictOneRoom(day, time) ==
    LET slotsAtThisTime ==
            SelectSeq(filteredTimeSlots,
                      LAMBDA slot : slot.day = day /\ slot.time = time)
        roomsUsed == [i \in 1..Len(slotsAtThisTime) |-> slotsAtThisTime[i].room]
        uniqueRooms == {roomsUsed[i] : i \in 1..Len(roomsUsed)}
    IN  IF Len(slotsAtThisTime) >= 2
        THEN IF Cardinality(uniqueRooms) = 1
             THEN [hasConflict |-> TRUE, type |-> "room"]
             ELSE [hasConflict |-> TRUE, type |-> "general"]
        ELSE NoConflict

\* hasConflict without its last return: distinct rooms fall through
hasConflictRoomOnly(day, time) ==
    LET slotsAtThisTime ==
            SelectSeq(filteredTimeSlots,
                      LAMBDA slot : slot.day = day /\ slot.time = time)
        roomsUsed == [i \in 1..Len(slotsAtThisTime) |-> slotsAtThisTime[i].room]
        uniqueRooms == {roomsUsed[i] : i \in 1..Len(roomsUsed)}
    IN  IF Len(slotsAtThisTime) >= 2 /\ Cardinality(uniqueRooms) < Len(roomsUsed)
        THEN [hasConflict |-> TRUE, type |-> "room"]
        ELSE NoConflict

hasConflict(day, time) ==
    LET slotsAtThisTime ==
            SelectSeq(filteredTimeSlots,
                      LAMBDA slot : slot.day = day /\ slot.time = time)
        roomsUsed == [i \in 1..Len(slotsAtThisTime) |-> slotsAtThisTime[i].room]
        uniqueRooms == {roomsUsed[i] : i \in 1..Len(roomsUsed)}
    IN  IF Len(slotsAtThisTime) >= 2
        THEN IF Cardinality(uniqueRooms) < Len(roomsUsed)
             THEN [hasConflict |-> TRUE, type |-> "room"]
             ELSE [hasConflict |-> TRUE, type |-> "general"]
        ELSE NoConflict

TimetableInit ==
    /\ timetable \in Snapshots
    /\ allTimeSlots = <<>>
    /\ loading = TRUE
    /\ selectedTeacher = "all"
    /\ cell = NoCell
    /\ conflict = NoConflict

\* loadAllTimeSlots up to its await: setLoading(true) hides the grid.  It runs
\* on mount (the initial state is that of a load under way) and again whenever
\* the tab or the teacher filter changes.
loadAllTimeSlotsStart ==
    /\ loading' = TRUE
    /\ cell' = NoCell
    /\ conflict' = NoConflict
    /\ UNCHANGED <<timetable, allTimeSlots, selectedTeacher>>
    /\ UNCHANGED nonGridVars

\* loadAllTimeSlots from its await on: getDocs resolves and the snapshot
\* replaces the list, or it rejects and the list stays; loading ends either way
loadAllTimeSlotsSettle ==
    /\ loading
    /\ \E ok \in BOOLEAN :
           allTimeSlots' = IF ok THEN timetable ELSE allTimeSlots
    /\ loading' = FALSE
    /\ cell' = NoCell
    /\ conflict' = NoConflict
    /\ UNCHANGED <<timetable, selectedTeacher>>
    /\ UNCHANGED nonGridVars

\* new Set(filteredTimeSlots.map((slot) => slot.teacherId))
uniqueTeachersInSlots ==
    {filteredTimeSlots[i].teacherId : i \in 1..Len(filteredTimeSlots)}

\* the teacher filter's onChange: the options are "all" and the teachers in view
setSelectedTeacher(t) ==
    /\ t = "all" \/ t \in uniqueTeachersInSlots
    /\ selectedTeacher' = t
    /\ cell' = NoCell
    /\ conflict' = NoConflict
    /\ UNCHANGED <<timetable, allTimeSlots, loading>>
    /\ UNCHANGED nonGridVars

\* the grid, shown once loading is over, renders the cell (day, time)
RenderCell(day, time) ==
    /\ ~loading
    /\ cell' = <<day, time>>
    /\ conflict' = hasConflict(day, time)
    /\ UNCHANGED <<timetable, allTimeSlots, loading, selectedTeacher>>
    /\ UNCHANGED nonGridVars

TimetableNext ==
    \/ loadAllTimeSlotsStart
    \/ loadAllTimeSlotsSettle
    \/ \E t \in Teachers \cup {"all"} : setSelectedTeacher(t)
    \/ \E day \in Days, time \in Times : RenderCell(day, time)

(***************************************************************************)
(* The registries and the slot handlers of the two dashboards              *)
(* (CoordinatorDashboard, src/unnamed/part_003; Dashboard,                 *)
(* src/unnamed/part_002)                                                   *)
(*                                                                         *)
(* A document written by these handlers carries its id: the id of a        *)
(* 'timetable' document is its position in the collection, the id of a     *)
(* registry document is its position in the registry, where a deleted      *)
(* document stays as not live, so that no id is used twice.  A write that  *)
(* Firestore rejects leaves every variable as it is (the handler's catch   *)
(* alerts or logs) and is not a step.                                      *)
(***************************************************************************)
MaxDocs == 2
MaxEntries == 1

\* the id no document has (null)
NoId == 0

SubjectNames == {"Matematica", "Fisica"}
RoomNames == {"101", "102"}

\* the part of the grid the handlers are exercised on
SlotDays == {"Segunda-feira"}
SlotTimes == {"08:00-09:00", "09:00-10:00"}

\* currentUser.uid of the teacher whose Dashboard is mounted
currentUserUid == "t1"

\* what getDocs returns for a registry: { id: doc.id, ...doc.data() }
Collection(db) ==
    {[id |-> i, name |-> db[i].name] : i \in {k \in 1..Len(db) : db[k].live}}

\* list.some(entry => entry.name === name)
IsValidName(list, name) == \E entry \in list : entry.name = name

\* loadSubjects: the snapshot replaces the list, or getDocs rejects and the
\* list stays.  The list's order (by name) is read by no handler.
loadSubjects ==
    /\ \E ok \in BOOLEAN :
           subjects' = IF ok THEN Collection(subjectsDb) ELSE subjects
    /\ UNCHANGED <<subjectsDb, roomsDb, rooms>>
    /\ UNCHANGED <<callVars, initVars>>
    /\ UNCHANGED <<pwVars, authVars, cpfVars, ttVars, dashVars>>

loadRooms ==
    /\ \E ok \in BOOLEAN :
           rooms' = IF ok THEN Collection(roomsDb) ELSE rooms
    /\ UNCHANGED <<subjectsDb, roomsDb, subjects>>
    /\ UNCHANGED <<callVars, initVars>>
    /\ UNCHANGED <<pwVars, authVars, cpfVars, ttVars, dashVars>>

\* addDoc, then loadSubjects
handleAddSubject(name) ==
    /\ Len(subjectsDb) < MaxEntries
    /\ subjectsDb' = Append(subjectsDb, [name |-> name, live |-> TRUE])
    /\ \E ok \in BOOLEAN :
           subjects' = IF ok THEN Collection(subjectsDb') ELSE subjects
    /\ UNCHANGED <<roomsDb, rooms>>
    /\ UNCHANGED <<callVars, initVars>>
    /\ UNCHANGED <<pwVars, authVars, cpfVars, ttVars, dashVars>>

\* handleEditSubject(subject) on an entry of the list, then updateDoc of the
\* name, then loadSubjects.  No document of 'timetable' is touched.
handleUpdateSubject(subject, name) ==
    /\ subject \in subjects
    /\ subjectsDb[subject.id].live
    /\ subjectsDb' = [subjectsDb EXCEPT ![subject.id].name = name]
    /\ \E ok \in BOOLEAN :
           subjects' = IF ok THEN Collection(subjectsDb') ELSE subjects
    /\ UNCHANGED <<roomsDb, rooms>>
    /\ UNCHANGED <<callVars, initVars>>
    /\ UNCHANGED <<pwVars, authVars, cpfVars, ttVars, dashVars>>

\* deleteDoc on an entry of the list, then loadSubjects.  No document of
\* 'timetable' is touched.
handleDeleteSubject(subjectId) ==
    /\ \E subject \in subjects : subject.id = subjectId
    /\ subjectsDb' = [subjectsDb EXCEPT ![subjectId].live = FALSE]
    /\ \E ok \in BOOLEAN :
           subjects' = IF ok THEN Collection(subjectsDb') ELSE subjects
    /\ UNCHANGED <<roomsDb, rooms>>
    /\ UNCHANGED <<callVars, initVars>>
    /\ UNCHANGED <<pwVars, authVars, cpfVars, ttVars, dashVars>>

handleAddRoom(name) ==
    /\ Len(roomsDb) < MaxEntries
    /\ roomsDb' = Append(roomsDb, [name |-> name, live |-> TRUE])
    /\ \E ok \in BOOLEAN :
           rooms' = IF ok THEN Collection(roomsDb') ELSE rooms
    /\ UNCHANGED <<subjectsDb, subjects>>
    /\ UNCHANGED <<callVars, initVars>>
    /\ UNCHANGED <<pwVars, authVars, cpfVars, ttVars, dashVars>>

handleUpdateRoom(room, name) ==
    /\ room \in rooms
    /\ roomsDb[room.id].live
    /\ roomsDb' = [roomsDb EXCEPT ![room.id].name = name]
    /\ \E ok \in BOOLEAN :
           rooms' = IF ok THEN Collection(roomsDb') ELSE rooms
    /\ UNCHANGED <<subjectsDb, subjects>>
    /\ UNCHANGED <<callVars, initVars>>
    /\ UNCHANGED <<pwVars, authVars, cpfVars, ttVars, dashVars>>

handleDeleteRoom(roomId) ==
    /\ \E room \in rooms : room.id = roomId
    /\ roomsDb' = [roomsDb EXCEPT ![roomId].live = FALSE]
    /\ \E ok \in BOOLEAN :
           rooms' = IF ok THEN Collection(roomsDb') ELSE rooms
    /\ UNCHANGED <<subjectsDb, subjects>>
    /\ UNCHANGED <<callVars, initVars>>
    /\ UNCHANGED <<pwVars, authVars, cpfVars, ttVars, dashVars>>

\* the document addDoc stores in 'timetable'
NewSlot(teacherId, day, time, subject, room) ==
    [id |-> Len(timetable) + 1, teacherId |-> teacherId, day |-> day,
     time |-> time, subject |-> subject, room |-> room]

\* the cell (day, time) of the coordinator's grid shows "+ Adicionar"
IsEmptyCell(day, time) ==
    /\ ~loading
    /\ \A i \in 1..Len(filteredTimeSlots) :
           ~(filteredTimeSlots[i].day = day /\ filteredTimeSlots[i].time = time)

\* CoordinatorDashboard: handleEmptyCellClick(day, time) on an empty cell,
\* the form filled in, then handleAddSlot: the checks against the loaded
\* lists, addDoc, and loadAllTimeSlots up to its await
handleAddSlot(day, time, teacherId, subject, room) ==
    /\ IsEmptyCell(day, time)
    /\ IsValidName(subjects, subject)
    /\ IsValidName(rooms, room)
    /\ LET existingSlots ==
               SelectSeq(allTimeSlots,
                         LAMBDA slot : /\ slot.teacherId = teacherId
                                       /\ slot.day = day
                                       /\ slot.time = time)
       IN  ~(Len(existingSlots) > 0)
    /\ Len(timetable) < MaxDocs
    /\ timetable' = Append(timetable, NewSlot(teacherId, day, time, subject, room))
    /\ loading' = TRUE
    /\ cell' = NoCell
    /\ conflict' = NoConflict
    /\ UNCHANGED <<allTimeSlots, selectedTeacher>>
    /\ UNCHANGED <<callVars, initVars>>
    /\ UNCHANGED <<pwVars, authVars, cpfVars, registryVars, dashVars>>

\* updateDoc of the subject and the room of one document
UpdatedSlot(id, subject, room) ==
    [timetable EXCEPT ![id].subject = subject, ![id].room = room]

\* CoordinatorDashboard: handleSlotClick(slot) on a slot in view, the form
\* changed, then handleUpdateSlot
handleUpdateSlot(slot, subject, room) ==
    /\ ~loading
    /\ \E i \in 1..Len(filteredTimeSlots) : filteredTimeSlots[i] = slot
    /\ IsValidName(subjects, subject)
    /\ IsValidName(rooms, room)
    /\ timetable' = UpdatedSlot(slot.id, subject, room)
    /\ loading' = TRUE
    /\ cell' = NoCell
    /\ conflict' = NoConflict
    /\ UNCHANGED <<allTimeSlots, selectedTeacher>>
    /\ UNCHANGED <<callVars, initVars>>
    /\ UNCHANGED <<pwVars, authVars, cpfVars, registryVars, dashVars>>

\* Dashboard: loadTimeSlots from its await on.  The snapshot, cut down to the
\* user's own slots, replaces the list, or getDocs rejects and the list
\* stays; a handler that awaited the load then closes the modal.
loadTimeSlotsSettle ==
    /\ dashPending # "none"
    /\ \E ok \in BOOLEAN :
           timeSlots' =
               IF ok
               THEN SelectSeq(timetable,
                              LAMBDA data : data.teacherId = currentUserUid)
               ELSE timeSlots
    /\ dashLoading' = FALSE
    /\ IF dashPending = "handler"
       THEN showAddModal' = FALSE /\ editingSlotId' = NoId
       ELSE UNCHANGED <<showAddModal, editingSlotId>>
    /\ dashPending' = "none"
    /\ UNCHANGED <<selectedSlot, dashSubjects, dashRooms>>
    /\ UNCHANGED <<callVars, initVars>>
    /\ UNCHANGED <<pwVars, authVars, cpfVars, ttVars, registryVars>>

\* what stands for undefined where a slot is looked for
NoSlot ==
    [id |-> NoId, teacherId |-> "", day |-> "", time |-> "", subject |-> "",
     room |-> ""]

\* timeSlots.find(...): the first slot of the cell, or undefined
getSlotForCell(day, time) ==
    LET found == {i \in 1..Len(timeSlots) :
                      /\ timeSlots[i].day = day
                      /\ timeSlots[i].time = time
                      /\ timeSlots[i].teacherId = currentUserUid}
    IN  IF found = {} THEN NoSlot
        ELSE timeSlots[CHOOSE i \in found : \A j \in found : i <= j]

\* Dashboard: a click on a cell of the grid, which is shown once loading is
\* over and is covered while the modal is open
handleCellClick(day, time) ==
    /\ ~dashLoading
    /\ ~showAddModal
    /\ LET existingSlot == getSlotForCell(day, time)
       IN  editingSlotId' =
               IF existingSlot # NoSlot THEN existingSlot.id ELSE NoId
    /\ selectedSlot' = <<day, time>>
    /\ showAddModal' = TRUE
    /\ UNCHANGED <<timeSlots, dashLoading, dashPending, dashSubjects, dashRooms>>
    /\ UNCHANGED <<callVars, initVars>>
    /\ UNCHANGED <<pwVars, authVars, cpfVars, ttVars, registryVars>>

\* Dashboard: Cancelar, or a click outside the modal
closeAddModal ==
    /\ showAddModal
    /\ showAddModal' = FALSE
    /\ editingSlotId' = NoId
    /\ UNCHANGED <<timeSlots, dashLoading, dashPending, selectedSlot,
                   dashSubjects, dashRooms>>
    /\ UNCHANGED <<callVars, initVars>>
    /\ UNCHANGED <<pwVars, authVars, cpfVars, ttVars, registryVars>>

\* Dashboard: Salvar (the modal's button calls handleAddSlot when
\* editingSlotId is null): the checks against the loaded lists, addDoc, and
\* loadTimeSlots up to its await.  The handler looks for no existing slot.
DashboardHandleAddSlot(subject, room) ==
    /\ showAddModal
    /\ editingSlotId = NoId
    /\ selectedSlot # NoCell
    /\ IsValidName(dashSubjects, subject)
    /\ IsValidName(dashRooms, room)
    /\ Len(timetable) < MaxDocs
    /\ timetable' = Append(timetable,
                           NewSlot(currentUserUid, selectedSlot[1],
                                   selectedSlot[2], subject, room))
    /\ dashPending' = "handler"
    /\ UNCHANGED <<timeSlots, dashLoading, showAddModal, selectedSlot,
                   editingSlotId, dashSubjects, dashRooms>>
    /\ UNCHANGED <<allTimeSlots, loading, selectedTeacher, cell, conflict>>
    /\ UNCHANGED <<callVars, initVars>>
    /\ UNCHANGED <<pwVars, authVars, cpfVars, registryVars>>

\* Dashboard: Atualizar (the button calls handleUpdateSlot when editingSlotId
\* is set)
DashboardHandleUpdateSlot(subject, room) ==
    /\ showAddModal
    /\ editingSlotId # NoId
    /\ IsValidName(dashSubjects, subject)
    /\ IsValidName(dashRooms, room)
    /\ timetable' = UpdatedSlot(editingSlotId, subject, room)
    /\ dashPending' = "handler"
    /\ UNCHANGED <<timeSlots, dashLoading, showAddModal, selectedSlot,
                   editingSlotId, dashSubjects, dashRooms>>
    /\ UNCHANGED <<allTimeSlots, loading, selectedTeacher, cell, conflict>>
    /\ UNCHANGED <<callVars, initVars>>
    /\ UNCHANGED <<pwVars, authVars, cpfVars, registryVars>>

\* both dashboards are mounted over an empty timetable, their loads of it
\* under way; the registries hold one subject and two rooms, and both
\* dashboards have loaded them
SlotsInit ==
    /\ timetable = <<>>
    /\ allTimeSlots = <<>>
    /\ loading = TRUE
    /\ selectedTeacher = "all"
    /\ cell = NoCell
    /\ conflict = NoConflict
    /\ subjectsDb = <<[name |-> "Matematica", live |-> TRUE]>>
    /\ roomsDb = <<[name |-> "101", live |-> TRUE], [name |-> "102", live |-> TRUE]>>
    /\ subjects = Collection(subjectsDb)
    /\ rooms = Collection(roomsDb)
    /\ timeSlots = <<>>
    /\ dashLoading = TRUE
    /\ dashPending = "mount"
    /\ showAddModal = FALSE
    /\ selectedSlot = NoCell
    /\ editingSlotId = NoId
    /\ dashSubjects = Collection(subjectsDb)
    /\ dashRooms = Collection(roomsDb)

SlotsNext ==
    \/ loadAllTimeSlotsStart
    \/ loadAllTimeSlotsSettle
    \/ \E t \in Teachers \cup {"all"} : setSelectedTeacher(t)
    \/ \E day \in SlotDays, time \in SlotTimes : RenderCell(day, time)
    \/ \E day \in SlotDays, time \in SlotTimes, teacherId \in Teachers,
          subject \in SubjectNames, room \in RoomNames :
           handleAddSlot(day, time, teacherId, subject, room)
    \/ \E i \in 1..Len(allTimeSlots), subject \in SubjectNames, room \in RoomNames :
           handleUpdateSlot(allTimeSlots[i], subject, room)
    \/ loadTimeSlotsSettle
    \/ \E day \in SlotDays, time \in SlotTimes : handleCellClick(day, time)
    \/ closeAddModal
    \/ \E subject \in SubjectNames, room \in RoomNames :
           DashboardHandleAddSlot(subject, room)
    \/ \E subject \in SubjectNames, room \in RoomNames :
           DashboardHandleUpdateSlot(subject, room)

\* the coordinator's dashboard alone over empty registries and an empty
\* timetable, everything loaded
RegistryInit ==
    /\ timetable = <<>>
    /\ allTimeSlots = <<>>
    /\ loading = FALSE
    /\ selectedTeacher = "all"
    /\ cell = NoCell
    /\ conflict = NoConflict
    /\ subjectsDb = <<>>
    /\ roomsDb = <<>>
    /\ subjects = {}
    /\ rooms = {}

RegistryNext ==
    \/ loadSubjects
    \/ loadRooms
    \/ \E name \in SubjectNames : handleAddSubject(name)
    \/ \E subject \in subjects, name \in SubjectNames :
           handleUpdateSubject(subject, name)
    \/ \E subject \in subjects : handleDeleteSubject(subject.id)
    \/ \E name \in RoomNames : handleAddRoom(name)
    \/ \E room \in rooms, name \in RoomNames : handleUpdateRoom(room, name)
    \/ \E room \in rooms : handleDeleteRoom(room.id)
    \/ loadAllTimeSlotsSettle
    \/ \E time \in SlotTimes, subject \in SubjectNames, room \in RoomNames :
           handleAddSlot("Segunda-feira", time, "t1", subject, room)
    \/ \E i \in 1..Len(allTimeSlots), subject \in SubjectNames, room \in RoomNames :
           handleUpdateSlot(allTimeSlots[i], subject, room)

(***************************************************************************)
(* passwordUtils (src/src/utils/passwordUtils.ts)                          *)
(***************************************************************************)
UpperCase ==
    {"A", "B", "C", "D", "E", "F", "G", "H", "I", "J", "K", "L", "M",
     "N", "O", "P", "Q", "R", "S", "T", "U", "V", "W", "X", "Y", "Z"}
LowerCase ==
    {"a", "b", "c", "d", "e", "f", "g", "h", "i", "j", "k", "l", "m",
     "n", "o", "p", "q", "r", "s", "t", "u", "v", "w", "x", "y", "z"}

\* /[class]/.test(s): some character of s is in the class
Test(class, s) == \E i \in 1..Len(s) : s[i] \in class

\* /[^A-Za-z0-9]/.test(s): some character of s is in none of the three classes
TestNotAlphanumeric(s) ==
    \E i \in 1..Len(s) : s[i] \notin (UpperCase \cup LowerCase \cup Digit)

\* validatePassword without its last rule
validatePasswordNoSymbol(pw) ==
    LET tooShort == IF Len(pw) < 8
                    THEN <<"A senha deve ter pelo menos 8 caracteres">>
                    ELSE <<>>
        noUpper == IF ~Test(UpperCase, pw)
                   THEN <<"A senha deve conter pelo menos 1 letra maiuscula">>
                   ELSE <<>>
        noLower == IF ~Test(LowerCase, pw)
                   THEN <<"A senha deve conter pelo menos 1 letra minuscula">>
                   ELSE <<>>
        noDigit == IF ~Test(Digit, pw)
                   THEN <<"A senha deve conter pelo menos 1 numero">>
                   ELSE <<>>
        errors == tooShort \o noUpper \o noLower \o noDigit
    IN  [valid |-> Len(errors) = 0, errors |-> errors]

\* each if pushes its message, in this order; the messages are written
\* without their accents
validatePassword(pw) ==
    LET tooShort == IF Len(pw) < 8
                    THEN <<"A senha deve ter pelo menos 8 caracteres">>
                    ELSE <<>>
        noUpper == IF ~Test(UpperCase, pw)
                   THEN <<"A senha deve conter pelo menos 1 letra maiuscula">>
                   ELSE <<>>
        noLower == IF ~Test(LowerCase, pw)
                   THEN <<"A senha deve conter pelo menos 1 letra minuscula">>
                   ELSE <<>>
        noDigit == IF ~Test(Digit, pw)
                   THEN <<"A senha deve conter pelo menos 1 numero">>
                   ELSE <<>>
        noSymbol == IF ~TestNotAlphanumeric(pw)
                    THEN <<"A senha deve conter pelo menos 1 simbolo">>
                    ELSE <<>>
        errors == tooShort \o noUpper \o noLower \o noDigit \o noSymbol
    IN  [valid |-> Len(errors) = 0, errors |-> errors]

\* passwords: a head of up to MaxHead characters, one or more of each class
\* or none of a class, followed by up to MaxPad copies of one character
MaxHead == 4
MaxPad == 5

PasswordChars == {"A", "z", "7", "!", " "}

Copies(c, k) == [i \in 1..k |-> c]

Passwords ==
    {head \o Copies(c, k) :
        head \in UNION {[1..n -> PasswordChars] : n \in 0..MaxHead},
        c \in PasswordChars, k \in 0..MaxPad}

\* validatePassword was not called yet
NoValidation == [valid |-> FALSE, errors |-> <<"">>]

PasswordInit ==
    /\ password \in Passwords
    /\ validation = NoValidation

\* a caller (register, updateProfile, the forms) validates the password
CallValidatePassword ==
    /\ validation' = validatePassword(password)
    /\ UNCHANGED password
    /\ UNCHANGED <<cpfVars, ttVars, registryVars, dashVars, authVars, callVars,
                   initVars>>

PasswordNext == CallValidatePassword

(***************************************************************************)
(* AuthProvider (src/src/contexts/AuthContext.tsx) and the route           *)
(* /dashboard (src/src/App.tsx, src/src/components/PrivateRoute.tsx)       *)
(*                                                                         *)
(* An account is [uid, email, password]; a document of 'users' is          *)
(* [id, userId, cpf, internalId, profile].  The name and the timestamps    *)
(* of a document, and the context's userName, are left out: no modelled    *)
(* step reads them.  A login that throws before it changed anything is    *)
(* not a step; the steps of register and the calls of updateProfile are    *)
(* recorded, those that throw as well.                                     *)
(***************************************************************************)
MaxAccounts == 2

\* the uid of nobody (null)
NoUser == 0

\* the CPF of nobody (null)
NoCPF == <<>>

\* `${cleanedCPF}@teacherstimetable.local`
generateInternalIdentifier(c) == formatCPF(c) \o <<"@teacherstimetable.local">>

\* the document register stores, were its profile 'coordinator'
UserDocCoordinator(userId, cleanedCPF, internalIdentifier) ==
    [id |-> userId, userId |-> userId, cpf |-> cleanedCPF,
     internalId |-> internalIdentifier, profile |-> "coordinator"]

\* the document register stores with setDoc
UserDoc(userId, cleanedCPF, internalIdentifier) ==
    [id |-> userId, userId |-> userId, cpf |-> cleanedCPF,
     internalId |-> internalIdentifier, profile |-> "regular"]

\* query(collection(db, 'users'), where('cpf', '==', c))
DocsWithCpf(c) == {d \in users : d.cpf = c}

\* getDoc(doc(db, 'users', id)): the document, if it exists
DocAt(id) == {d \in users : d.id = id}

\* the account of a uid, and that of an identifier
AccountOf(uid) == {a \in accounts : a.uid = uid}
AccountWithEmail(email) == {a \in accounts : a.email = email}

\* what the calls are exercised on: a coordinator made outside the
\* application, a teacher's number in two spellings, a number validateCPF
\* rejects, and passwords validatePassword accepts and rejects
CoordinatorCPF == <<"7", "0", "4", "9", "9", "9", "6", "2", "2", "0", "6">>
GoodPassword == <<"S", "e", "n", "h", "a", "1", "2", "!">>
OtherPassword == <<"O", "u", "t", "r", "a", "3", "4", "#">>
WeakPassword == <<"s", "e", "n", "h", "a">>

RegisterCpfs == {ReferenceCPF, Punctuate(ReferenceCPF), Repeated("1")}
LoginCpfs == {ReferenceCPF, CoordinatorCPF}

\* loadUserData(userId): the document's cpf and profile go to the context;
\* a missing document, or a rejected getDoc, leaves the context as it is
loadUserData(userId, ok) ==
    IF ok /\ DocAt(userId) # {}
    THEN LET userData == CHOOSE d \in DocAt(userId) : TRUE
         IN  /\ userCPF' = userData.cpf
             /\ userProfile' = userData.profile
    ELSE UNCHANGED <<userCPF, userProfile>>

NoRender ==
    [loading |-> TRUE, currentUser |-> NoUser, userProfile |-> "null",
     element |-> "nothing"]

\* the application starts with nobody signed in; the coordinator's account
\* and document exist
AuthInit ==
    /\ accounts = {[uid |-> 1,
                    email |-> generateInternalIdentifier(CoordinatorCPF),
                    password |-> GoodPassword]}
    /\ users = {[id |-> 1, userId |-> 1, cpf |-> CoordinatorCPF,
                  internalId |-> generateInternalIdentifier(CoordinatorCPF),
                  profile |-> "coordinator"]}
    /\ authCurrentUser = NoUser
    /\ notified = {}
    /\ listenerUser = NoUser
    /\ currentUser = NoUser
    /\ userCPF = NoCPF
    /\ userProfile = "null"
    /\ authLoading = TRUE
    /\ regPc = "idle"
    /\ regArgs = [cpf |-> <<>>, password |-> <<>>]
    /\ regUserId = NoUser
    /\ regTrace = <<>>
    /\ regResult = "none"
    /\ rendered = NoRender
    /\ regFailed = {}
    /\ profArgs = [updates |-> [cpf |-> NoCPF, password |-> <<>>,
                                currentPassword |-> <<>>],
                    userCPF |-> NoCPF]
    /\ profTrace = <<>>
    /\ profResult = "none"

\* the onAuthStateChanged callback up to its await: it is called with the
\* auth state whenever that state is new to it
onAuthStateChangedStart ==
    /\ notified # {authCurrentUser}
    /\ listenerUser = NoUser
    /\ notified' = {authCurrentUser}
    /\ currentUser' = authCurrentUser
    /\ IF authCurrentUser # NoUser
       THEN /\ listenerUser' = authCurrentUser
            /\ UNCHANGED <<userCPF, userProfile, authLoading>>
       ELSE /\ userCPF' = NoCPF
            /\ userProfile' = "null"
            /\ authLoading' = FALSE
            /\ UNCHANGED listenerUser
    /\ UNCHANGED <<accounts, users, authCurrentUser, regPc, regArgs, regUserId,
                   regTrace, regResult, rendered>>
    /\ UNCHANGED <<cpfVars, ttVars, registryVars, dashVars, pwVars, initVars>>
    /\ UNCHANGED callVars

\* the callback from its await on: loadUserData settles, loading ends
onAuthStateChangedSettle ==
    /\ listenerUser # NoUser
    /\ \E ok \in BOOLEAN : loadUserData(listenerUser, ok)
    /\ authLoading' = FALSE
    /\ listenerUser' = NoUser
    /\ UNCHANGED <<accounts, users, authCurrentUser, notified, currentUser,
                   regPc, regArgs, regUserId, regTrace, regResult, rendered>>
    /\ UNCHANGED <<cpfVars, ttVars, registryVars, dashVars, pwVars, initVars>>
    /\ UNCHANGED callVars

Step(name, ok) == [step |-> name, ok |-> ok]

\* register threw
registerThrows ==
    /\ regPc' = "idle"
    /\ regResult' = "threw"

\* register(cpf, password, name) up to its first await: the two validations.
\* The form of Login calls it, which is shown to nobody signed in.  Once
\* MaxAccounts accounts exist, only the calls that cannot add one are made.
register(c, pw) ==
    /\ ~authLoading
    /\ currentUser = NoUser
    /\ regPc = "idle"
    /\ \/ Cardinality(accounts) < MaxAccounts
       \/ AccountWithEmail(generateInternalIdentifier(c)) # {}
    /\ regArgs' = [cpf |-> c, password |-> pw]
    /\ regUserId' = NoUser
    /\ IF ~validateCPF(c)
       THEN /\ regTrace' = <<Step("validateCPF", FALSE)>>
            /\ registerThrows
       ELSE IF ~validatePassword(pw).valid
       THEN /\ regTrace' = <<Step("validateCPF", TRUE),
                             Step("validatePassword", FALSE)>>
            /\ registerThrows
       ELSE /\ regTrace' = <<Step("validateCPF", TRUE),
                             Step("validatePassword", TRUE)>>
            /\ regPc' = "query"
            /\ regResult' = "none"
    /\ UNCHANGED <<accounts, users, authCurrentUser, notified, listenerUser,
                   currentUser, userCPF, userProfile, authLoading, rendered>>
    /\ UNCHANGED <<cpfVars, ttVars, registryVars, dashVars, pwVars, initVars>>
    /\ UNCHANGED callVars

\* register's cleanedCPF and internalIdentifier
cleanedCPF == formatCPF(regArgs.cpf)
internalIdentifier == generateInternalIdentifier(cleanedCPF)

\* registerQuery going on to the next step whatever the query found
registerQueryUnchecked ==
    /\ regPc = "query"
    /\ \E ok \in BOOLEAN :
           /\ regTrace' = Append(regTrace,
                                 Step("query", ok /\ DocsWithCpf(cleanedCPF) = {}))
           /\ regPc' = "create"
           /\ UNCHANGED regResult
    /\ UNCHANGED <<accounts, users, authCurrentUser, notified, listenerUser,
                   currentUser, userCPF, userProfile, authLoading, regArgs,
                   regUserId, rendered>>
    /\ UNCHANGED <<cpfVars, ttVars, registryVars, dashVars, pwVars, initVars>>
    /\ UNCHANGED callVars

\* register: the query for a document with this cpf.  It goes on when the
\* query answers and finds none, and throws otherwise.
registerQuery ==
    /\ regPc = "query"
    /\ \E ok \in BOOLEAN :
           IF ok /\ DocsWithCpf(cleanedCPF) = {}
           THEN /\ regTrace' = Append(regTrace, Step("query", TRUE))
                /\ regPc' = "create"
                /\ UNCHANGED regResult
           ELSE /\ regTrace' = Append(regTrace, Step("query", FALSE))
                /\ registerThrows
    /\ UNCHANGED <<accounts, users, authCurrentUser, notified, listenerUser,
                   currentUser, userCPF, userProfile, authLoading, regArgs,
                   regUserId, rendered>>
    /\ UNCHANGED <<cpfVars, ttVars, registryVars, dashVars, pwVars, initVars>>
    /\ UNCHANGED callVars

\* register, step 1: createUserWithEmailAndPassword.  It rejects when the
\* identifier has an account (auth/email-already-in-use) or the service
\* fails; else the account exists and its user is signed in.
registerCreate ==
    /\ regPc = "create"
    /\ \E ok \in BOOLEAN :
           IF ok /\ AccountWithEmail(internalIdentifier) = {}
           THEN LET uid == Cardinality(accounts) + 1
                IN  /\ accounts' = accounts \cup
                           {[uid |-> uid, email |-> internalIdentifier,
                             password |-> regArgs.password]}
                    /\ authCurrentUser' = uid
                    /\ regUserId' = uid
                    /\ regTrace' = Append(regTrace, Step("createUser", TRUE))
                    /\ regPc' = "write"
                    /\ UNCHANGED regResult
           ELSE /\ regTrace' = Append(regTrace, Step("createUser", FALSE))
                /\ registerThrows
                /\ UNCHANGED <<accounts, authCurrentUser, regUserId>>
    /\ UNCHANGED <<users, notified, listenerUser, currentUser, userCPF,
                   userProfile, authLoading, regArgs, rendered>>
    /\ UNCHANGED <<cpfVars, ttVars, registryVars, dashVars, pwVars, initVars>>
    /\ UNCHANGED callVars

\* register, step 2: setDoc of the document users/userId, merge: false
registerWrite ==
    /\ regPc = "write"
    /\ \E ok \in BOOLEAN :
           IF ok
           THEN /\ users' = (users \ DocAt(regUserId)) \cup
                        {UserDoc(regUserId, cleanedCPF, internalIdentifier)}
                /\ regTrace' = Append(regTrace, Step("setDoc", TRUE))
                /\ regPc' = "read"
                /\ UNCHANGED <<regResult, regFailed>>
           ELSE /\ regTrace' = Append(regTrace, Step("setDoc", FALSE))
                /\ registerThrows
                /\ regFailed' = regFailed \cup {cleanedCPF}
                /\ UNCHANGED users
    /\ UNCHANGED <<accounts, authCurrentUser, notified, listenerUser,
                   currentUser, userCPF, userProfile, authLoading, regArgs,
                   regUserId, rendered>>
    /\ UNCHANGED <<cpfVars, ttVars, registryVars, dashVars, pwVars, initVars>>
    /\ UNCHANGED <<profArgs, profTrace, profResult>>

\* register, steps 3 and 4: getDoc of the document and the comparison of its
\* cpf; then the context's userCPF and userProfile are set and it returns
registerRead ==
    /\ regPc = "read"
    /\ \E ok \in BOOLEAN :
           IF /\ ok
              /\ \E createdDoc \in DocAt(regUserId) : createdDoc.cpf = cleanedCPF
           THEN /\ userCPF' = cleanedCPF
                /\ userProfile' = "regular"
                /\ regTrace' = Append(regTrace, Step("getDoc", TRUE))
                /\ regPc' = "idle"
                /\ regResult' = "returned"
                /\ UNCHANGED regFailed
           ELSE /\ regTrace' = Append(regTrace, Step("getDoc", FALSE))
                /\ registerThrows
                /\ regFailed' = regFailed \cup {cleanedCPF}
                /\ UNCHANGED <<userCPF, userProfile>>
    /\ UNCHANGED <<accounts, users, authCurrentUser, notified, listenerUser,
                   currentUser, authLoading, regArgs, regUserId, rendered>>
    /\ UNCHANGED <<cpfVars, ttVars, registryVars, dashVars, pwVars, initVars>>
    /\ UNCHANGED <<profArgs, profTrace, profResult>>

\* login(cpf, password): validateCPF, getInternalIdentifier (the identifier
\* of the first document with this cpf), signInWithEmailAndPassword, then
\* loadUserData of the user signed in.  The form of Login calls it.
login(c, pw) ==
    /\ ~authLoading
    /\ currentUser = NoUser
    /\ regPc = "idle"
    /\ validateCPF(c)
    /\ \E userDoc \in DocsWithCpf(formatCPF(c)) :
       \E account \in AccountWithEmail(userDoc.internalId) :
           /\ account.password = pw
           /\ authCurrentUser' = account.uid
           /\ \E ok \in BOOLEAN : loadUserData(account.uid, ok)
    /\ UNCHANGED <<accounts, users, notified, listenerUser, currentUser,
                   authLoading, regPc, regArgs, regUserId, regTrace, regResult,
                   rendered>>
    /\ UNCHANGED <<cpfVars, ttVars, registryVars, dashVars, pwVars, initVars>>
    /\ UNCHANGED callVars

\* logout: signOut, then the context's user data is cleared.  The dashboards
\* call it.
logout ==
    /\ ~authLoading
    /\ currentUser # NoUser
    /\ authCurrentUser' = NoUser
    /\ userCPF' = NoCPF
    /\ userProfile' = "null"
    /\ UNCHANGED <<accounts, users, notified, listenerUser, currentUser,
                   authLoading, regPc, regArgs, regUserId, regTrace, regResult,
                   rendered>>
    /\ UNCHANGED <<cpfVars, ttVars, registryVars, dashVars, pwVars, initVars>>
    /\ UNCHANGED callVars

\* updates.cpf.replace(/\D/g, '')
OnlyDigits(s) == SelectSeq(s, LAMBDA c : c \in Digit)

\* the fields updateProfile hands to updateDoc other than name and updatedAt:
\* cpf and internalId when the CPF changed, and never profile
updateData(updates) ==
    IF updates.cpf # NoCPF /\ formatCPF(OnlyDigits(updates.cpf)) # userCPF
    THEN [cpf |-> formatCPF(OnlyDigits(updates.cpf)),
          internalId |->
              generateInternalIdentifier(formatCPF(OnlyDigits(updates.cpf)))]
    ELSE [cpf |-> NoCPF, internalId |-> <<>>]

\* updateDoc(userDocRef, updateData)
UpdatedUsers(userId, data) ==
    IF data.cpf = NoCPF THEN users
    ELSE {IF d.id = userId
          THEN [d EXCEPT !.cpf = data.cpf, !.internalId = data.internalId]
          ELSE d : d \in users}

\* updateProfile is a row of checks, each throwing an Error when it fails,
\* and of awaited calls of Firestore and of Firebase Auth, each throwing when
\* it rejects; a block of the row applies under its if conditions
Check(applies, ok) == [step |-> "check", applies |-> applies, ok |-> ok]
Call(name, applies, ok) == [step |-> name, applies |-> applies, ok |-> ok]

\* the blocks are run in their order up to the first that applies and
\* fails: the calls made, each with its outcome, and whether the run threw
Run(blocks) ==
    LET failing == {k \in 1..Len(blocks) : blocks[k].applies /\ ~blocks[k].ok}
        last == IF failing = {} THEN Len(blocks)
                ELSE CHOOSE k \in failing : \A j \in failing : k <= j
        made == SelectSeq(SubSeq(blocks, 1, last),
                          LAMBDA b : b.applies /\ b.step # "check")
    IN  [trace |-> [k \in 1..Len(made) |-> Step(made[k].step, made[k].ok)],
         threw |-> failing # {}]

\* needsReauth, were it set for a new password only
needsReauthForPasswordOnly(updates) == updates.password # <<>>

\* needsReauth: the CPF changes or a new password is given
needsReauth(updates) ==
    updateData(updates).cpf # NoCPF \/ updates.password # <<>>

\* reauthenticateWithCredential(currentUser, credential) succeeds for the
\* account's own identifier and password
Reauthenticates(userId, currentInternalId, currentPassword) ==
    \E account \in AccountOf(userId) :
        /\ account.email = currentInternalId
        /\ account.password = currentPassword

\* updateEmail rejects an identifier another account has
\* (auth/email-already-in-use)
EmailIsFree(userId, email) ==
    \A account \in AccountWithEmail(email) : account.uid = userId

\* the blocks of updateProfile in their order; failAt is the call the
\* service rejects, if any
updateProfileBlocks(updates, failAt) ==
    LET userId == currentUser
        newCPF == OnlyDigits(updates.cpf)
        data == updateData(updates)
        reauth == needsReauth(updates)
        withCPF == updates.cpf # NoCPF
        withPassword == updates.password # <<>>
        withCurrent == updates.currentPassword # <<>>
    IN  <<\* Update CPF if provided
          Check(withCPF, validateCPF(newCPF)),
          Call("getDocs", withCPF, failAt # "getDocs"),
          Check(withCPF,
                \A existingUser \in DocsWithCpf(formatCPF(newCPF)) :
                    existingUser.id = userId),
          \* Update password if provided
          Check(withPassword, validatePassword(updates.password).valid),
          Check(withPassword, withCurrent),
          \* Re-authenticate if needed
          Call("getDoc", reauth /\ withCurrent, failAt # "getDoc"),
          Check(reauth /\ withCurrent, DocAt(userId) # {}),
          Call("reauthenticate", reauth /\ withCurrent,
               /\ failAt # "reauthenticate"
               /\ \E userDoc \in DocAt(userId) :
                      Reauthenticates(userId, userDoc.internalId,
                                      updates.currentPassword)),
          Check(reauth /\ ~withCurrent, FALSE),
          \* Update Firebase Auth email if CPF changed
          Call("updateEmail", withCPF /\ data.internalId # <<>>,
               /\ failAt # "updateEmail"
               /\ EmailIsFree(userId, data.internalId)),
          \* Update password if provided
          Call("updatePassword", withPassword /\ withCurrent,
               failAt # "updatePassword"),
          \* Update Firestore document
          Call("updateDoc", TRUE, failAt # "updateDoc" /\ DocAt(userId) # {})>>

\* the call was made and succeeded
Did(run, name) == \E k \in 1..Len(run.trace) : run.trace[k] = Step(name, TRUE)

\* the calls the service may reject
ProfileCalls ==
    {"getDocs", "getDoc", "reauthenticate", "updateEmail", "updatePassword",
     "updateDoc"}

\* updateProfile(updates) of the user signed in; an absent field of updates
\* is empty.  The run goes through the blocks in their order and throws at
\* the first check or call that fails, keeping what the earlier calls wrote;
\* after updateDoc comes loadUserData.
updateProfile(updates, failAt) ==
    /\ ~authLoading
    /\ currentUser # NoUser
    /\ currentUser = authCurrentUser
    /\ regPc = "idle"
    /\ \E userId \in {currentUser},
          data \in {updateData(updates)},
          blocks \in {updateProfileBlocks(updates, failAt)} :
       \E run \in {Run(blocks)} :
           /\ failAt # "none" =>
                  \E k \in 1..Len(run.trace) : run.trace[k] = Step(failAt, FALSE)
           /\ accounts' =
                  {IF a.uid # userId THEN a
                   ELSE [a EXCEPT
                         !.email = IF Did(run, "updateEmail")
                                   THEN data.internalId ELSE @,
                         !.password = IF Did(run, "updatePassword")
                                      THEN updates.password ELSE @] :
                   a \in accounts}
           /\ IF Did(run, "updateDoc")
              THEN /\ users' = UpdatedUsers(userId, data)
                   /\ \E ok \in BOOLEAN :
                          IF ok
                          THEN LET userData ==
                                       CHOOSE d \in users' : d.id = userId
                               IN  /\ userCPF' = userData.cpf
                                   /\ userProfile' = userData.profile
                          ELSE UNCHANGED <<userCPF, userProfile>>
              ELSE UNCHANGED <<users, userCPF, userProfile>>
    /\ UNCHANGED <<authCurrentUser, notified, listenerUser, currentUser,
                   authLoading, regPc, regArgs, regUserId, regTrace, regResult,
                   rendered>>
    /\ UNCHANGED <<cpfVars, ttVars, registryVars, dashVars, pwVars, initVars>>
    /\ UNCHANGED regFailed

\* updateProfile, with the call and what it did kept for later reference
updateProfileCall(updates, failAt) ==
    /\ updateProfile(updates, failAt)
    /\ \E run \in {Run(updateProfileBlocks(updates, failAt))} :
           /\ profArgs' = [updates |-> updates, userCPF |-> userCPF]
           /\ profTrace' = run.trace
           /\ profResult' = IF run.threw THEN "threw" ELSE "returned"

\* the profile changes the dashboards' forms are exercised on
Updates ==
    [cpf : {NoCPF, ReferenceCPF, Punctuate(CoordinatorCPF)},
     password : {<<>>, OtherPassword, WeakPassword},
     currentPassword : {<<>>, GoodPassword}]

\* DashboardRouter taking every profile but 'regular' for a coordinator
DashboardRouterNotRegular ==
    IF userProfile # "regular" THEN "CoordinatorDashboard" ELSE "Dashboard"

\* DashboardRouter (App.tsx)
DashboardRouter ==
    IF userProfile = "coordinator" THEN "CoordinatorDashboard" ELSE "Dashboard"

\* PrivateRoute letting its children through without a user
PrivateRouteOpen(children) ==
    IF authLoading THEN "loading-container" ELSE children

\* PrivateRoute (PrivateRoute.tsx)
PrivateRoute(children) ==
    IF authLoading THEN "loading-container"
    ELSE IF currentUser # NoUser THEN children ELSE "Navigate to /login"

\* the element of the route /dashboard is rendered; AuthProvider renders its
\* children, the routes, once loading is over
RenderDashboardRoute ==
    /\ ~authLoading
    /\ rendered' = [loading |-> authLoading, currentUser |-> currentUser,
                    userProfile |-> userProfile,
                    element |-> PrivateRoute(DashboardRouter)]
    /\ UNCHANGED <<accounts, users, authCurrentUser, notified, listenerUser,
                   currentUser, userCPF, userProfile, authLoading,
                   regPc, regArgs, regUserId, regTrace, regResult>>
    /\ UNCHANGED <<cpfVars, ttVars, registryVars, dashVars, pwVars, initVars>>
    /\ UNCHANGED callVars

AuthNext ==
    \/ onAuthStateChangedStart
    \/ onAuthStateChangedSettle
    \/ \E c \in RegisterCpfs, pw \in {GoodPassword, WeakPassword} : register(c, pw)
    \/ registerQuery
    \/ registerCreate
    \/ registerWrite
    \/ registerRead
    \/ \E c \in LoginCpfs, pw \in {GoodPassword, OtherPassword} : login(c, pw)
    \/ logout
    \/ \E updates \in Updates, failAt \in {"none"} \cup ProfileCalls :
           /\ updateProfile(updates, failAt)
           /\ UNCHANGED <<profArgs, profTrace, profResult>>
    \/ RenderDashboardRoute

\* the profile form alone: a user signs in, changes the profile, signs out
ProfileNext ==
    \/ onAuthStateChangedStart
    \/ onAuthStateChangedSettle
    \/ \E c \in LoginCpfs, pw \in {GoodPassword, OtherPassword} : login(c, pw)
    \/ logout
    \/ \E updates \in Updates, failAt \in {"none"} \cup ProfileCalls :
           updateProfileCall(updates, failAt)

(***************************************************************************)
(* initializeUsersCollection (firestoreInit, src/unnamed/part_001)         *)
(*                                                                         *)
(* The document users/_system_init has none of the fields of a user's      *)
(* document and is kept apart from them, as systemDoc.  AuthProvider calls *)
(* the function on every start of the application.                         *)
(***************************************************************************)
MaxCalls == 3

\* the codes setDoc may reject with, and two rejections without a known
\* code, with and without a message
WriteErrors ==
    {"permission-denied", "failed-precondition", "not-found", "unavailable",
     "message", "no-message"}

\* the error text returned for a rejected setDoc
WriteErrorText(code) ==
    CASE code = "permission-denied" ->
             "Permission denied. Check Firestore security rules to allow writes to _system_init document in users collection."
      [] code \in {"failed-precondition", "not-found"} ->
             "Firestore database not initialized. Please create the database in Firebase Console."
      [] code = "unavailable" ->
             "Firestore is unavailable. Check your internet connection and Firebase project status."
      [] code = "message" ->
             "Failed to initialize users collection: message"
      [] OTHER ->
             "Failed to initialize users collection: Unknown error"

NoResult == [success |-> FALSE, error |-> "", message |-> ""]

InitializeInit ==
    /\ systemDoc \in BOOLEAN
    /\ initPc = "idle"
    /\ initExisted = FALSE
    /\ initTrace = <<>>
    /\ initResult = NoResult
    /\ initCalls = 0
    /\ initPrior = NoResult

\* the call, up to the await of getDoc
initializeUsersCollection ==
    /\ initPc = "idle"
    /\ initCalls < MaxCalls
    /\ initCalls' = initCalls + 1
    /\ initExisted' = systemDoc
    /\ initTrace' = <<>>
    /\ initResult' = NoResult
    /\ initPrior' = initResult
    /\ initPc' = "getDoc"
    /\ UNCHANGED systemDoc
    /\ UNCHANGED <<cpfVars, ttVars, registryVars, dashVars, pwVars, authVars,
                   callVars>>

\* getDoc(systemDocRef): the call returns at once when the document exists;
\* it goes on to create it when it does not, and also when getDoc rejects
initGetDoc ==
    /\ initPc = "getDoc"
    /\ \E ok \in BOOLEAN :
           /\ initTrace' = Append(initTrace, Step("getDoc", ok))
           /\ IF ok /\ systemDoc
              THEN /\ initResult' =
                          [success |-> TRUE, error |-> "",
                           message |-> "Users collection is ready for authentication"]
                   /\ initPc' = "idle"
              ELSE /\ initPc' = "setDoc"
                   /\ UNCHANGED initResult
    /\ UNCHANGED <<systemDoc, initExisted, initCalls, initPrior>>
    /\ UNCHANGED <<cpfVars, ttVars, registryVars, dashVars, pwVars, authVars,
                   callVars>>

\* initSetDoc taking a rejected write for a success
initSetDocAlwaysSucceeds ==
    /\ initPc = "setDoc"
    /\ \E code \in {"ok"} \cup WriteErrors :
           /\ initTrace' = Append(initTrace, Step("setDoc", code = "ok"))
           /\ systemDoc' = (systemDoc \/ code = "ok")
           /\ initPc' = "getDocs"
           /\ UNCHANGED initResult
    /\ UNCHANGED <<initExisted, initCalls, initPrior>>
    /\ UNCHANGED <<cpfVars, ttVars, registryVars, dashVars, pwVars, authVars,
                   callVars>>

\* setDoc(systemDocRef, {...}): the document exists from then on, or the
\* write rejects and the call returns success: false with the error's text
initSetDoc ==
    /\ initPc = "setDoc"
    /\ \E code \in {"ok"} \cup WriteErrors :
           /\ initTrace' = Append(initTrace, Step("setDoc", code = "ok"))
           /\ IF code = "ok"
              THEN /\ systemDoc' = TRUE
                   /\ initPc' = "getDocs"
                   /\ UNCHANGED initResult
              ELSE /\ initResult' =
                          [success |-> FALSE, error |-> WriteErrorText(code),
                           message |-> ""]
                   /\ initPc' = "idle"
                   /\ UNCHANGED systemDoc
    /\ UNCHANGED <<initExisted, initCalls, initPrior>>
    /\ UNCHANGED <<cpfVars, ttVars, registryVars, dashVars, pwVars, authVars,
                   callVars>>

\* the verification query: the call returns success whether it answers or not
initGetDocs ==
    /\ initPc = "getDocs"
    /\ \E ok \in BOOLEAN :
           initTrace' = Append(initTrace, Step("getDocs", ok))
    /\ initResult' =
           [success |-> TRUE, error |-> "",
            message |-> "Users collection created and ready for authentication"]
    /\ initPc' = "idle"
    /\ UNCHANGED <<systemDoc, initExisted, initCalls, initPrior>>
    /\ UNCHANGED <<cpfVars, ttVars, registryVars, dashVars, pwVars, authVars,
                   callVars>>

InitializeNext ==
    \/ initializeUsersCollection
    \/ initGetDoc
    \/ initSetDoc
    \/ initGetDocs

(***************************************************************************)
(* Specifications                                                          *)
(***************************************************************************)
\* no coordinator's dashboard is mounted
DashboardIdle ==
    /\ timetable = <<>>
    /\ allTimeSlots = <<>>
    /\ loading = TRUE
    /\ selectedTeacher = "all"
    /\ cell = NoCell
    /\ conflict = NoConflict

\* the registries are empty and not loaded
RegistryIdle ==
    /\ subjectsDb = <<>>
    /\ roomsDb = <<>>
    /\ subjects = {}
    /\ rooms = {}

\* no teacher's Dashboard is mounted
TeacherIdle ==
    /\ timeSlots = <<>>
    /\ dashLoading = TRUE
    /\ dashPending = "none"
    /\ showAddModal = FALSE
    /\ selectedSlot = NoCell
    /\ editingSlotId = NoId
    /\ dashSubjects = {}
    /\ dashRooms = {}

\* no CPF utility is in use
CpfIdle ==
    /\ cpf = <<>>
    /\ prior = <<>>
    /\ edit = NoEdit
    /\ call = "none"
    /\ arg = <<>>
    /\ from = "input"
    /\ retStr = <<>>
    /\ retBool = FALSE

\* validatePassword is not in use
PasswordIdle ==
    /\ password = <<>>
    /\ validation = NoValidation

\* the application is not started
AuthIdle == AuthInit

\* initializeUsersCollection is not in use
InitializeIdle ==
    /\ systemDoc = TRUE
    /\ initPc = "idle"
    /\ initExisted = FALSE
    /\ initTrace = <<>>
    /\ initResult = NoResult
    /\ initCalls = 0
    /\ initPrior = NoResult

\* all but the CPF utilities, and all but the coordinator's grid
RestIdle ==
    RegistryIdle /\ TeacherIdle /\ PasswordIdle /\ AuthIdle /\ InitializeIdle

\* the CPF utilities alone
CpfSpecInit == CpfInit /\ DashboardIdle /\ RestIdle
CpfSpec == CpfSpecInit /\ [][CpfNext]_vars

\* the coordinator's timetable grid alone
TimetableSpecInit == TimetableInit /\ CpfIdle /\ RestIdle
TimetableSpec == TimetableSpecInit /\ [][TimetableNext]_vars

\* the slot handlers of the two dashboards over fixed registries
SlotsSpecInit ==
    SlotsInit /\ CpfIdle /\ PasswordIdle /\ AuthIdle /\ InitializeIdle
SlotsSpec == SlotsSpecInit /\ [][SlotsNext]_vars

\* the coordinator's registry and slot handlers
RegistrySpecInit ==
    RegistryInit /\ TeacherIdle /\ CpfIdle /\ PasswordIdle /\ AuthIdle
    /\ InitializeIdle
RegistrySpec == RegistrySpecInit /\ [][RegistryNext]_vars

\* validatePassword alone
PasswordSpecInit ==
    PasswordInit /\ CpfIdle /\ DashboardIdle /\ RegistryIdle /\ TeacherIdle
    /\ AuthIdle /\ InitializeIdle
PasswordSpec == PasswordSpecInit /\ [][PasswordNext]_vars

\* AuthProvider and the route /dashboard
AuthSpecInit ==
    AuthInit /\ CpfIdle /\ DashboardIdle /\ RegistryIdle /\ TeacherIdle
    /\ PasswordIdle /\ InitializeIdle
AuthSpec == AuthSpecInit /\ [][AuthNext]_vars

\* AuthProvider with the profile form alone
ProfileSpecInit ==
    AuthInit /\ CpfIdle /\ DashboardIdle /\ RegistryIdle /\ TeacherIdle
    /\ PasswordIdle /\ InitializeIdle
ProfileSpec == ProfileSpecInit /\ [][ProfileNext]_vars

\* initializeUsersCollection alone, called on each start of the application
InitializeSpecInit ==
    InitializeInit /\ CpfIdle /\ DashboardIdle /\ RegistryIdle /\ TeacherIdle
    /\ PasswordIdle /\ AuthIdle
InitializeSpec == InitializeSpecInit /\ [][InitializeNext]_vars

(***************************************************************************)
(* What the claims speak of, stated from their words alone: none of these  *)
(* uses a definition of the utilities above.                               *)
(***************************************************************************)
\* the positions of s that hold neither a period nor a hyphen
KeptPositions(s) == {i \in 1..Len(s) : s[i] # "." /\ s[i] # "-"}

\* the j-th smallest element of the set of positions P
NthPosition(P, j) == CHOOSE i \in P : Cardinality({k \in P : k <= i}) = j

\* s with every period and hyphen removed, the rest in its order
Stripped(s) ==
    [j \in 1..Cardinality(KeptPositions(s)) |-> s[NthPosition(KeptPositions(s), j)]]

\* exactly eleven characters, each a decimal digit
ElevenDigitString(s) ==
    /\ DOMAIN s = 1..11
    /\ \A i \in 1..11 : s[i] \in Digit

\* the value of the i-th digit of an eleven digit string
DigitAt(s, i) == CHOOSE n \in 0..9 : Number(s[i]) = n

\* remainder < 2 gives 0, otherwise 11 - remainder
FromRemainder(r) == IF r \in {0, 1} THEN 0 ELSE 11 - r

\* digits 1-9 weighted 10..2
FirstCheckDigit(s) ==
    FromRemainder((  10 * DigitAt(s, 1) + 9 * DigitAt(s, 2) + 8 * DigitAt(s, 3)
                   + 7 * DigitAt(s, 4) + 6 * DigitAt(s, 5) + 5 * DigitAt(s, 6)
                   + 4 * DigitAt(s, 7) + 3 * DigitAt(s, 8) + 2 * DigitAt(s, 9)) % 11)

\* digits 1-10 weighted 11..2
SecondCheckDigit(s) ==
    FromRemainder((  11 * DigitAt(s, 1) + 10 * DigitAt(s, 2) + 9 * DigitAt(s, 3)
                   + 8 * DigitAt(s, 4) + 7 * DigitAt(s, 5) + 6 * DigitAt(s, 6)
                   + 5 * DigitAt(s, 7) + 4 * DigitAt(s, 8) + 3 * DigitAt(s, 9)
                   + 2 * DigitAt(s, 10)) % 11)

\* eleven copies of one digit
ElevenCopies(s) == \E d \in Digit : s = [i \in 1..11 |-> d]

\* the rule of the CPF: eleven digits, not all equal, both check digits right
MeetsChecksumRule(s) ==
    LET c == Stripped(s)
    IN  /\ ElevenDigitString(c)
        /\ ~ElevenCopies(c)
        /\ DigitAt(c, 10) = FirstCheckDigit(c)
        /\ DigitAt(c, 11) = SecondCheckDigit(c)

(***************************************************************************)
(* Claims                                                                  *)
(***************************************************************************)
\* C1: validateCPF returns true exactly when its argument, periods and hyphens
\* removed, is eleven digits, not eleven copies of one digit, with the 10th
\* digit equal to the first check digit and the 11th to the second; it returns
\* true for 52998224725.
C1_ValidateCPFIsTheChecksumRule ==
    call = "validateCPF" =>
        /\ retBool <=> MeetsChecksumRule(arg)
        /\ Stripped(arg) = ReferenceCPF => retBool

\* the reference number, typed with separators, was accepted
C1_Witness ==
    /\ call = "validateCPF"
    /\ arg = Punctuate(ReferenceCPF)
    /\ retBool

\* C2: validateCPF returns false for each of the ten strings of eleven equal
\* digits, with or without separators, although both check digits the code
\* computes for such a string equal that digit.
C2_RepeatedDigitIsRejected ==
    call = "validateCPF" =>
        LET c == Stripped(arg)
        IN  \A d \in Digit :
                c = Repeated(d) =>
                    /\ ~retBool
                    /\ calculateCheckDigit([i \in 1..9 |-> Number(d)], firstWeights)
                           = Number(d)
                    /\ calculateCheckDigit([i \in 1..10 |-> Number(d)], secondWeights)
                           = Number(d)

\* 777.777.777-77 was rejected
C2_Witness ==
    /\ call = "validateCPF"
    /\ arg = Punctuate(Repeated("7"))
    /\ ~retBool

\* C3: validateCPF returns false for every string that, periods and hyphens
\* removed, is not exactly eleven decimal digits.
C3_MalformedIsRejected ==
    (call = "validateCPF" /\ ~ElevenDigitString(Stripped(arg))) => ~retBool

\* the empty string was rejected
C3_Witness ==
    /\ call = "validateCPF"
    /\ arg = <<>>
    /\ ~retBool

\* further malformed arguments that were rejected: a letter among eleven
\* characters, and twelve digits
C3_WitnessLetter ==
    /\ call = "validateCPF"
    /\ Len(Stripped(arg)) = 11
    /\ \E i \in 1..Len(arg) : arg[i] = "a"
    /\ ~retBool

\* the caller replaced one digit of a number validateCPF accepts by another
\* digit, and validateCPF was called with the result
SingleDigitChanged ==
    /\ call = "validateCPF"
    /\ edit.kind = "replace"
    /\ prior[edit.pos] \in Digit
    /\ cpf[edit.pos] \in Digit
    /\ validateCPF(prior)

\* which of the eleven digits the caller replaced
ChangedDigit == Cardinality({k \in 1..edit.pos : cpf[k] \in Digit})

\* by how much the digit changed
ChangedBy ==
    LET old == Number(prior[edit.pos])
        new == Number(cpf[edit.pos])
    IN  IF new > old THEN new - old ELSE old - new

C5_FormatCPFStripsSeparatorsOnly == call = "formatCPF" => retStr = Stripped(arg)

\* a text with three separators and a letter came back without the separators
\* and with the letter
C5_Witness ==
    /\ call = "formatCPF"
    /\ Len(arg) = 14
    /\ Len(retStr) = 11
    /\ \E i \in 1..11 : retStr[i] = "a"

\* C6: formatCPF is idempotent: called with a string it returned, it returns
\* that string.
C6_FormatCPFIsIdempotent ==
    (call = "formatCPF" /\ from = "formatCPF") => retStr = arg

\* formatCPF was called with what it returned for a text with separators
C6_Witness ==
    /\ call = "formatCPF"
    /\ from = "formatCPF"
    /\ Len(cpf) > Len(arg)
    /\ retStr = arg

\* C7: validateCPFFormat returns true if and only if its argument, periods and
\* hyphens removed, is exactly eleven characters, each a digit 0-9.
C7_ValidateCPFFormatIsElevenDigits ==
    call = "validateCPFFormat" => (retBool <=> ElevenDigitString(Stripped(arg)))

\* a number typed with separators was found well formed
C7_Witness ==
    /\ call = "validateCPFFormat"
    /\ Len(arg) = 14
    /\ retBool

\* eleven digits laid out as DDD.DDD.DDD-DD
LaidOut(c) ==
    <<c[1], c[2], c[3], ".", c[4], c[5], c[6], ".", c[7], c[8], c[9], "-",
      c[10], c[11]>>

\* C8 as claimed: displayCPF returns its argument unchanged whenever the
\* argument, periods and hyphens removed, is not exactly eleven digits, and the
\* eleven digits laid out as DDD.DDD.DDD-DD whenever it is.
C8_DisplayCPFKeepsWhatIsNotElevenDigits ==
    call = "displayCPF" =>
        LET c == Stripped(arg)
        IN  IF ElevenDigitString(c) THEN retStr = LaidOut(c) ELSE retStr = arg

\* C9: for an eleven digit canonical x, displayCPF(formatCPF(x)) has fourteen
\* characters, three digits, a period, three digits, a period, three digits,
\* a hyphen, two digits, and its digits in order are those of x.
C9_DisplayOfFormatIsThePattern ==
    (call = "displayCPF" /\ from = "formatCPF" /\ ElevenDigitString(cpf)) =>
        /\ Len(retStr) = 14
        /\ retStr[4] = "." /\ retStr[8] = "." /\ retStr[12] = "-"
        /\ \A i \in (1..14) \ {4, 8, 12} : retStr[i] \in Digit
        /\ Stripped(retStr) = cpf

\* displayCPF was called with what formatCPF returned for the reference number
C9_Witness ==
    /\ call = "displayCPF"
    /\ from = "formatCPF"
    /\ cpf = ReferenceCPF
    /\ validateCPF(cpf)
    /\ retStr = LaidOut(ReferenceCPF)

\* the entries of the loaded list that are in view (the teacher filter) and
\* match the day and the time of the cell rendered last
MatchingEntries ==
    {i \in 1..Len(allTimeSlots) :
        /\ selectedTeacher = "all" \/ allTimeSlots[i].teacherId = selectedTeacher
        /\ allTimeSlots[i].day = cell[1]
        /\ allTimeSlots[i].time = cell[2]}

\* C10: hasConflict returns {hasConflict: false, type: null} for a cell that
\* zero or one entry of the list in view matches in both day and time.
C10_FewerThanTwoIsNoConflict ==
    (cell # NoCell /\ Cardinality(MatchingEntries) <= 1) =>
        conflict = [hasConflict |-> FALSE, type |-> "null"]

\* a cell with exactly one matching entry, in a list of three of which two are
\* in view, was rendered without a conflict
C10_Witness ==
    /\ cell # NoCell
    /\ Len(allTimeSlots) = 3
    /\ selectedTeacher # "all"
    /\ Len(filteredTimeSlots) = 2
    /\ Cardinality(MatchingEntries) = 1
    /\ conflict = [hasConflict |-> FALSE, type |-> "null"]

\* some room is the room of two of the matching entries
RoomRepeats ==
    \E i, j \in MatchingEntries :
        i # j /\ allTimeSlots[i].room = allTimeSlots[j].room

\* C11: for a cell that two or more entries of the list in view match,
\* hasConflict returns {true, 'room'} if and only if some room occurs more
\* than once among the matching entries, however many they are.
C11_RoomConflictIffRoomRepeats ==
    (cell # NoCell /\ Cardinality(MatchingEntries) >= 2) =>
        (conflict = [hasConflict |-> TRUE, type |-> "room"] <=> RoomRepeats)

\* three entries matched the cell, two of them in one room and the third in
\* another, and the cell was rendered as a room conflict
C11_Witness ==
    /\ cell # NoCell
    /\ Cardinality(MatchingEntries) = 3
    /\ Cardinality({allTimeSlots[i].room : i \in MatchingEntries}) = 2
    /\ conflict = [hasConflict |-> TRUE, type |-> "room"]

\* C12: for a cell that two or more entries of the list in view match, their
\* rooms pairwise distinct, hasConflict returns {true, 'general'}.
C12_DistinctRoomsIsGeneralConflict ==
    (cell # NoCell /\ Cardinality(MatchingEntries) >= 2 /\ ~RoomRepeats) =>
        conflict = [hasConflict |-> TRUE, type |-> "general"]

\* three entries in three rooms matched the cell, rendered as a general conflict
C12_Witness ==
    /\ cell # NoCell
    /\ Cardinality(MatchingEntries) = 3
    /\ Cardinality({allTimeSlots[i].room : i \in MatchingEntries}) = 3
    /\ conflict = [hasConflict |-> TRUE, type |-> "general"]
\* the teachers of the entries of the rendered cell that are in view
TeachersInCell == {allTimeSlots[i].teacherId : i \in MatchingEntries}

\* C13: hasConflict reports a conflict for a cell only when the cell holds
\* assignments of at least two different teachers; assignments of one teacher
\* alone are not reported.
C13_ConflictOnlyBetweenDifferentTeachers ==
    (cell # NoCell /\ conflict.hasConflict) => Cardinality(TeachersInCell) >= 2

\* C14: no two stored assignments have the same teacher, day and time, in
\* any state the add-slot handlers of the two dashboards reach in any
\* interleaving.
C14_OneSlotPerTeacherAndCell ==
    \A i, j \in 1..Len(timetable) :
        (/\ timetable[i].teacherId = timetable[j].teacherId
         /\ timetable[i].day = timetable[j].day
         /\ timetable[i].time = timetable[j].time) => i = j

\* C15: the subject of every stored assignment is the name of a document of
\* 'subjects' and its room the name of a document of 'rooms', after any
\* sequence of the coordinator's slot and registry handlers.
C15_SlotsNameRegisteredEntries ==
    \A i \in 1..Len(timetable) :
        /\ IsValidName(Collection(subjectsDb), timetable[i].subject)
        /\ IsValidName(Collection(roomsDb), timetable[i].room)

\* the steps of a call that the order is about
StepOrder == <<"validateCPF", "query", "createUser", "setDoc", "getDoc">>
OrderedSteps(trace) == SelectSeq(trace, LAMBDA s : s.step # "validatePassword")

\* the steps ran in the order of StepOrder, each after the success of all
\* before it
RanInOrder(trace) ==
    LET t == OrderedSteps(trace)
    IN  /\ Len(t) <= Len(StepOrder)
        /\ \A i \in 1..Len(t) : t[i].step = StepOrder[i]
        /\ \A i \in 1..(Len(t) - 1) : t[i].ok

\* all the steps ran and succeeded
RanToTheEnd(trace) ==
    LET t == OrderedSteps(trace)
    IN  Len(t) = Len(StepOrder) /\ \A i \in 1..Len(t) : t[i].ok

\* C16: register validates the CPF, queries for a duplicate, creates the
\* account, writes the document and reads it back, in this order and each
\* step only after the success of all before it; it returns only after the
\* read-back of a document that holds the same cleaned CPF.
C16_RegisterRunsItsStepsInOrder ==
    [][/\ RanInOrder(regTrace')
       /\ (regResult' = "returned" /\ regResult # "returned") =>
              /\ RanToTheEnd(regTrace')
              /\ \E d \in users :
                     d.id = regUserId /\ d.cpf = formatCPF(regArgs.cpf)]_vars

\* a call of register with a punctuated CPF returned after its six steps
C16_Witness ==
    /\ regResult = "returned"
    /\ Len(regTrace) = 6
    /\ regArgs.cpf = Punctuate(ReferenceCPF)

\* C17: a document that register adds has the profile 'regular', and no step
\* of register, login, logout or updateProfile changes the profile of a
\* document that exists.
C17_ProfileIsNeverWritten ==
    [][\A d \in users' :
           IF \E e \in users : e.id = d.id
           THEN \E e \in users : e.id = d.id /\ e.profile = d.profile
           ELSE d.profile = "regular"]_vars

\* a teacher registered and then changed the password with updateProfile
C17_Witness ==
    \E d \in users :
        /\ d.profile = "regular"
        /\ d.id = regUserId
        /\ regResult = "returned"
        /\ \E a \in accounts : a.uid = d.id /\ a.password = OtherPassword

\* C18: where the route /dashboard rendered for a user, it rendered the
\* coordinator's dashboard if and only if userProfile was 'coordinator', and
\* the teacher's dashboard for 'regular' and for null.
C18_CoordinatorDashboardIffCoordinator ==
    rendered.currentUser # NoUser =>
        /\ rendered.element = "CoordinatorDashboard"
               <=> rendered.userProfile = "coordinator"
        /\ rendered.userProfile \in {"regular", "null"}
               => rendered.element = "Dashboard"

\* the coordinator's dashboard was rendered
C18_Witness ==
    /\ rendered.element = "CoordinatorDashboard"
    /\ rendered.userProfile = "coordinator"

\* C19: PrivateRoute lets its children through only when loading is false
\* and currentUser is not null; it gives the placeholder while loading and
\* the redirection to /login when loading is false and currentUser is null.
C19_PrivateRouteGuardsTheDashboard ==
    /\ rendered.element \in {"Dashboard", "CoordinatorDashboard"} =>
           ~rendered.loading /\ rendered.currentUser # NoUser
    /\ (~rendered.loading /\ rendered.currentUser = NoUser) =>
           rendered.element = "Navigate to /login"
    /\ authLoading => PrivateRoute(DashboardRouter) = "loading-container"
    /\ (~authLoading /\ currentUser = NoUser) =>
           PrivateRoute(DashboardRouter) = "Navigate to /login"

\* the teacher's dashboard was rendered for a user whose profile was not
\* loaded
C19_Witness ==
    /\ rendered.element = "Dashboard"
    /\ rendered.currentUser # NoUser
    /\ rendered.userProfile = "null"

\* the rules of a password, in the order of their messages
RuleHolds(k, s) ==
    CASE k = 1 -> Len(s) >= 8
      [] k = 2 -> {i \in 1..Len(s) : s[i] \in UpperCase} # {}
      [] k = 3 -> {i \in 1..Len(s) : s[i] \in LowerCase} # {}
      [] k = 4 -> {i \in 1..Len(s) : s[i] \in Digit} # {}
      [] k = 5 -> {i \in 1..Len(s) :
                      s[i] \notin UpperCase /\ s[i] \notin LowerCase
                      /\ s[i] \notin Digit} # {}

RuleMessage ==
    <<"A senha deve ter pelo menos 8 caracteres",
      "A senha deve conter pelo menos 1 letra maiuscula",
      "A senha deve conter pelo menos 1 letra minuscula",
      "A senha deve conter pelo menos 1 numero",
      "A senha deve conter pelo menos 1 simbolo">>

ViolatedRules(s) == {k \in 1..5 : ~RuleHolds(k, s)}

\* C20: validatePassword returns valid exactly for a password of eight or
\* more characters with an uppercase letter, a lowercase letter, a digit and
\* a character that is none of these; errors holds the message of each
\* violated rule, once, in the rules' order; valid is true exactly when
\* errors is empty.
C20_ValidatePasswordAppliesTheFiveRules ==
    validation # NoValidation =>
        /\ validation.valid <=> ViolatedRules(password) = {}
        /\ validation.errors =
               [j \in 1..Cardinality(ViolatedRules(password)) |->
                   RuleMessage[NthPosition(ViolatedRules(password), j)]]
        /\ validation.valid <=> validation.errors = <<>>

\* a password of eight characters was accepted
C20_Witness ==
    /\ validation # NoValidation
    /\ validation.valid
    /\ Len(password) = 8

\* the calls of setDoc a run of initializeUsersCollection has made
SetDocSteps(trace) == {k \in 1..Len(trace) : trace[k].step = "setDoc"}

\* a call of initializeUsersCollection has returned
InitializeReturned == initPc = "idle" /\ initCalls > 0

RegisterStep == regTrace' # regTrace

\* C22: a register call with a CPF that validateCPF rejects or a password
\* that validatePassword rejects, and a register call whose query finds the
\* CPF in a users document, throws at that step; the step creates no Auth
\* account, writes no users document and leaves userCPF and userProfile as
\* they were.
C22_RejectedRegisterChangesNothing ==
    [][(/\ RegisterStep
        /\ \/ /\ regPc = "idle"
              /\ \/ ~validateCPF(regArgs'.cpf)
                 \/ ~validatePassword(regArgs'.password).valid
           \/ /\ regPc = "query"
              /\ DocsWithCpf(cleanedCPF) # {})
       => /\ regResult' = "threw"
          /\ regPc' = "idle"
          /\ UNCHANGED <<accounts, users, authCurrentUser, userCPF,
                         userProfile>>]_vars

\* register threw at its query, for a CPF that a users document holds
C22_Witness ==
    /\ regResult = "threw"
    /\ regTrace[Len(regTrace)] = Step("query", FALSE)
    /\ DocsWithCpf(cleanedCPF) # {}

\* C23: a register call for a CPF for which an earlier call created the Auth
\* account and then threw is able to complete: its query finds no document
\* with the CPF, and createUserWithEmailAndPassword finds the identifier
\* free.
C23_RetryCanComplete ==
    cleanedCPF \in regFailed =>
        /\ regPc = "query" => DocsWithCpf(cleanedCPF) = {}
        /\ regPc = "create" => AccountWithEmail(internalIdentifier) = {}


\* updateProfile was called
ProfileStep == <<profArgs, profTrace, profResult>>' # <<profArgs, profTrace, profResult>>

\* the calls of a run that write to Firebase Auth or to Firestore
WritingCalls(trace) ==
    {k \in 1..Len(trace) :
        trace[k].step \in {"updateEmail", "updatePassword", "updateDoc"}}

\* the call asked for a new password, or for a CPF other than the user's,
\* and gave no current password
ChangeWithoutCurrentPassword(args) ==
    /\ args.updates.currentPassword = <<>>
    /\ \/ args.updates.password # <<>>
       \/ /\ args.updates.cpf # NoCPF
          /\ formatCPF(OnlyDigits(args.updates.cpf)) # args.userCPF

\* C24: in every call of updateProfile, updateEmail and updatePassword are
\* called only after reauthenticateWithCredential succeeded in that call,
\* with a current password supplied; a call that asks for a CPF change or a
\* password change without a current password throws having made no writing
\* call, and leaves the Auth accounts and the users documents as they were.
C24_ReauthenticationComesFirst ==
    [][ProfileStep =>
          /\ \A k \in 1..Len(profTrace') :
                 profTrace'[k].step \in {"updateEmail", "updatePassword"} =>
                     /\ profArgs'.updates.currentPassword # <<>>
                     /\ \E j \in 1..(k - 1) :
                            profTrace'[j] = Step("reauthenticate", TRUE)
          /\ ChangeWithoutCurrentPassword(profArgs') =>
                 /\ profResult' = "threw"
                 /\ WritingCalls(profTrace') = {}
                 /\ UNCHANGED <<accounts, users>>]_vars

\* a call changed the CPF and the password: it reauthenticated, then
\* called updateEmail and updatePassword, and returned
C24_Witness ==
    /\ profResult = "returned"
    /\ \E j, k, l \in 1..Len(profTrace) :
           /\ j < k
           /\ k < l
           /\ profTrace[j] = Step("reauthenticate", TRUE)
           /\ profTrace[k] = Step("updateEmail", TRUE)
           /\ profTrace[l] = Step("updatePassword", TRUE)

=============================================================================
